---- MODULE Spec2Model ----
(***************************************************************************)
(* Model of the revsynth-researcher campaign controller (src/main.go).     *)
(*                                                                         *)
(* The program reads input.json once, then loops forever over the loaded   *)
(* ACO configurations: it synthesises a circuit for each configuration,    *)
(* skips non-exact or too expensive results and saves the others to a      *)
(* DynamoDB table.  log.Fatalln ends the process.                          *)
(*                                                                         *)
(* Strings are TLA+ strings: vectorToStr and gatesToStr build the same     *)
(* text as the Go code does.  float64 tunables are carried as their        *)
(* decimal literals, since the program only copies them.                   *)
(***************************************************************************)
EXTENDS Integers, Sequences, FiniteSets, TLC

VARIABLES
    in,         \* the Input read from input.json (main.go:152)
    store,      \* the items of table revsynth-research-results
    pc,         \* position of main()
    idx,        \* position of the range loop over in.AcoConfigs (1-based, 0 = no element)
    conf,       \* aco.Config built for the current configuration
    tv,         \* circuit.TruthVector handed to the running Synthesise call
    res,        \* result of Synthesise for the current configuration
    qc,         \* <<quantum cost computed for res.Gates>>, empty before calcQuantumCost returns
    s,          \* Solution handed to SaveSolution
    item,       \* Item of the PutItemInput built by SaveSolution
    err,        \* error returned by SaveSolution
    lastLog,    \* the last line written to the log
    begin,      \* history: in and store as they were when the current configuration step began
    roundSynth, \* history: the configurations synthesised so far in this round
    inFlight    \* history: the external calls that were started and have not returned

vars ==
    <<in, store, pc, idx, conf, tv, res, qc, s, item, err, lastLog, begin, roundSynth,
      inFlight>>

-----------------------------------------------------------------------------
(* Bounds of the model *)

MaxGates == 2

MaxSaved == 2

MaxConfigs == 2

MaxVector == 3

(* Program constant, main.go:53 *)

depositStrengthDefault == 100

-----------------------------------------------------------------------------
(* The value of a local that is not in scope, and of an empty log *)
None == <<>>

(* circuit.Gate as this program consumes it: TypeName(), TargetBits(),
   ControlBits().  The third gate has a type name the cost table lacks. *)
GatePool ==
    { [TypeName |-> "cnot",    TargetBits |-> <<0>>,    ControlBits |-> <<1>>],
      [TypeName |-> "fredkin", TargetBits |-> <<0, 1>>, ControlBits |-> <<2>>],
      [TypeName |-> "toffoli", TargetBits |-> <<2>>,    ControlBits |-> <<0, 1>>] }

GateSeqs == UNION { [1..n -> GatePool] : n \in 0..MaxGates }

(* aco.SynthesisResult: Complexity is a Go int *)
Complexities == {-1, 0, 1}

Results == [Complexity : Complexities, Gates : GateSeqs]

(* AlgConfig values an input.json may hold *)
ConfigA ==
    [NumOfAnts |-> 10, NumOfIterations |-> 50, Alpha |-> "1.0", Beta |-> "2.0",
     EvaporationRate |-> "0.1", LocalLoops |-> 3, SearchDepth |-> 8]

ConfigB ==
    [NumOfAnts |-> 25, NumOfIterations |-> 5, Alpha |-> "0.5", Beta |-> "1.5",
     EvaporationRate |-> "0.3", LocalLoops |-> 0, SearchDepth |-> 4]

(* the acoConfigs lists tried: the prefixes of ConfigA, ConfigB, ConfigA, ... *)
SampleConfigs == [i \in 1..MaxConfigs |-> IF i % 2 = 1 THEN ConfigA ELSE ConfigB]

ConfigLists == { SubSeq(SampleConfigs, 1, n) : n \in 0..MaxConfigs }

TargetCosts == {-1, 0, 6}

TruthTables ==
    { [InputTT |-> << <<0, 0>>, <<0, 1>>, <<1, 0>>, <<1, 1>> >>,
       TargetVector |-> <<0, 3, 2, 1>>] }

(* Input (main.go:31-36) as json.Unmarshal may fill it *)
Inputs ==
    { [TargetQuantumCost |-> c, AcoConfigs |-> l,
       InputTT |-> t.InputTT, TargetVector |-> t.TargetVector] :
         c \in TargetCosts, l \in ConfigLists, t \in TruthTables }

(* targetVector values of other input.json files: every vector of up to
   MaxVector elements, negative elements included.  They are run with one
   configuration and target cost 0. *)
VectorElements == {-1, 0, 1}

TargetVectors == UNION { [1..n -> VectorElements] : n \in 0..MaxVector }

VectorInputs ==
    { [TargetQuantumCost |-> 0, AcoConfigs |-> <<ConfigA>>,
       InputTT |-> <<>>, TargetVector |-> v] : v \in TargetVectors }

(* identifiers uuid.NewString() can return *)
Ids == { "uuid-" \o ToString(n) : n \in 1..MaxSaved }

-----------------------------------------------------------------------------
(* strings.Join *)
RECURSIVE Join(_, _)
Join(ss, sep) ==
    IF Len(ss) = 0 THEN ""
    ELSE IF Len(ss) = 1 THEN ss[1]
    ELSE ss[1] \o sep \o Join(Tail(ss), sep)

(* strconv.Itoa *)
Itoa(n) == ToString(n)

(* vectorToStr: the loop appends Itoa of each element in order *)
RECURSIVE vectorToStrLoop(_, _, _)
vectorToStrLoop(v, i, vss) ==
    IF i > Len(v) THEN vss
    ELSE vectorToStrLoop(v, i + 1, Append(vss, Itoa(v[i])))

(* vectorToStr with a slip: the separator lacks the space *)
vectorToStrComma(v) == "[" \o Join(vectorToStrLoop(v, 1, <<>>), ",") \o "]"

vectorToStr(v) == "[" \o Join(vectorToStrLoop(v, 1, <<>>), ", ") \o "]"

(* gateS of gatesToStr (main.go:75) *)
gateToStr(g) ==
    g.TypeName \o "(" \o vectorToStr(g.TargetBits) \o ", "
               \o vectorToStr(g.ControlBits) \o ")"

(* the loop of gatesToStr: i runs from len(gates)-1 down to 0 (here from
   Len(gates) down to 1) and appends to gatesSS *)
RECURSIVE gatesToStrLoop(_, _, _)
gatesToStrLoop(gates, i, gatesSS) ==
    IF i < 1 THEN gatesSS
    ELSE gatesToStrLoop(gates, i - 1, Append(gatesSS, gateToStr(gates[i])))

(* gatesSSOf with a slip: the loop runs from the first gate to the last *)
RECURSIVE gatesToStrLoopForward(_, _, _)
gatesToStrLoopForward(gates, i, gatesSS) ==
    IF i > Len(gates) THEN gatesSS
    ELSE gatesToStrLoopForward(gates, i + 1, Append(gatesSS, gateToStr(gates[i])))

gatesSSForward(gates) == gatesToStrLoopForward(gates, 1, <<>>)

gatesSSOf(gates) == gatesToStrLoop(gates, Len(gates), <<>>)

gatesToStr(gates) == Join(gatesSSOf(gates), ", ")

-----------------------------------------------------------------------------
(* calcQuantumCost: the switch of main.go:138-145.  fatal is log.Fatalln. *)
(* gateCost with a slip: the two weights are exchanged *)
gateCostSwapped(g) ==
    IF g.TypeName = "fredkin" THEN [fatal |-> FALSE, add |-> 1]
    ELSE IF g.TypeName = "cnot" THEN [fatal |-> FALSE, add |-> 5]
    ELSE [fatal |-> TRUE, add |-> 0]

gateCost(g) ==
    IF g.TypeName = "fredkin" THEN [fatal |-> FALSE, add |-> 5]
    ELSE IF g.TypeName = "cnot" THEN [fatal |-> FALSE, add |-> 1]
    ELSE [fatal |-> TRUE, add |-> 0]

RECURSIVE calcQuantumCostLoop(_, _, _)
calcQuantumCostLoop(gates, i, acc) ==
    IF i > Len(gates) THEN [fatal |-> FALSE, qc |-> acc, typeName |-> ""]
    ELSE IF gateCost(gates[i]).fatal
    THEN [fatal |-> TRUE, qc |-> acc, typeName |-> gates[i].TypeName]
    ELSE calcQuantumCostLoop(gates, i + 1, acc + gateCost(gates[i]).add)

calcQuantumCost(gates) == calcQuantumCostLoop(gates, 1, 0)

-----------------------------------------------------------------------------
(* the conditions of the two `continue`s *)
SkipComplexity(r) == r.Complexity > 0

(* SkipCost with a slip: a cost equal to the target is skipped too *)
SkipCostAtTarget(q, targetQuantumCost) == q >= targetQuantumCost

SkipCost(q, targetQuantumCost) == q > targetQuantumCost

(* AcoConfig with a slip: the deposit strength is read from the configuration *)
AcoConfigOwnDeposit(acoConfig) ==
    [NumOfAnts       |-> acoConfig.NumOfAnts,
     NumOfIterations |-> acoConfig.NumOfIterations,
     Alpha           |-> acoConfig.Alpha,
     Beta            |-> acoConfig.Beta,
     EvaporationRate |-> acoConfig.EvaporationRate,
     DepositStrength |-> acoConfig.NumOfAnts,
     LocalLoops      |-> acoConfig.LocalLoops,
     SearchDepth     |-> acoConfig.SearchDepth]

(* aco.Config built at main.go:159-168 *)
AcoConfig(acoConfig) ==
    [NumOfAnts       |-> acoConfig.NumOfAnts,
     NumOfIterations |-> acoConfig.NumOfIterations,
     Alpha           |-> acoConfig.Alpha,
     Beta            |-> acoConfig.Beta,
     EvaporationRate |-> acoConfig.EvaporationRate,
     DepositStrength |-> depositStrengthDefault,
     LocalLoops      |-> acoConfig.LocalLoops,
     SearchDepth     |-> acoConfig.SearchDepth]

(* circuit.TruthVector built at main.go:174-177 *)
TruthVector(input) == [Inputs |-> input.InputTT, Vector |-> input.TargetVector]

(* Solution built at main.go:190-194 *)
Solution(q, input, r) ==
    [QuantumCost |-> q, TargetVector |-> input.TargetVector, Gates |-> r.Gates]

(* the Item of SaveSolution's PutItemInput, main.go:89-102 *)
PutItemInput(id, sol) ==
    [id          |-> id,
     truthVector |-> vectorToStr(sol.TargetVector),
     quantumCost |-> Itoa(sol.QuantumCost),
     gates       |-> gatesToStr(sol.Gates)]

(* uuid.NewString(): an identifier no stored item has.  Which of the unused
   identifiers it is makes no difference to the program, so the model takes
   one of them. *)
UnusedIds == Ids \ { i.id : i \in store }

(* NewString with a slip: the item is keyed by its rendered target vector *)
NewStringFromVector == vectorToStr(s.TargetVector)

NewString == CHOOSE id \in UnusedIds : TRUE

(* PutItem on a table whose key is (id, truthVector), main.go:56-57: an item
   with the key of the new one is replaced *)
PutItem(table, new) ==
    { i \in table : ~(i.id = new.id /\ i.truthVector = new.truthVector) } \cup {new}

-----------------------------------------------------------------------------
Init ==
    /\ in \in Inputs
    /\ store = {}
    /\ pc = "round"
    /\ idx = 0
    /\ conf = None
    /\ tv = None
    /\ res = None
    /\ qc = None
    /\ s = None
    /\ item = None
    /\ err = None
    /\ lastLog = None
    /\ begin = None
    /\ roundSynth = <<>>
    /\ inFlight = {}

(* the locals of the loop body go out of scope *)
LocalsReset ==
    /\ conf' = None
    /\ tv' = None
    /\ res' = None
    /\ qc' = None
    /\ s' = None
    /\ item' = None
    /\ err' = None

(* Continue with a slip: the range loop is not advanced *)
ContinueRepeats(line) ==
    /\ lastLog' = line
    /\ pc' = "config"
    /\ UNCHANGED idx
    /\ LocalsReset
    /\ UNCHANGED <<in, store, begin, roundSynth, inFlight>>

(* Continue with a slip: the outer `for` is missing, main returns after one round *)
ContinueOnce(line) ==
    /\ lastLog' = line
    /\ IF idx < Len(in.AcoConfigs)
       THEN /\ pc' = "config"
            /\ idx' = idx + 1
       ELSE /\ pc' = "returned"
            /\ idx' = 0
    /\ LocalsReset
    /\ UNCHANGED <<in, store, begin, roundSynth, inFlight>>

(* the range loop moves on: `continue` and the end of the loop body *)
Continue(line) ==
    /\ lastLog' = line
    /\ IF idx < Len(in.AcoConfigs)
       THEN /\ pc' = "config"
            /\ idx' = idx + 1
            /\ UNCHANGED roundSynth
       ELSE /\ pc' = "round"
            /\ idx' = 0
            /\ UNCHANGED roundSynth
    /\ LocalsReset
    /\ UNCHANGED <<in, store, begin, inFlight>>

(* log.Fatalln: the process exits *)
Fatal(line) ==
    /\ lastLog' = line
    /\ pc' = "fatal"
    /\ UNCHANGED <<in, store, idx, conf, tv, res, qc, s, item, err, begin, roundSynth, inFlight>>

(* main.go:155-156: the outer for starts a round *)
RoundStart ==
    /\ pc = "round"
    /\ pc' = "range"
    /\ idx' = 0
    /\ roundSynth' = <<>>
    /\ lastLog' = <<"Running next iteration">>
    /\ UNCHANGED <<in, store, conf, tv, res, qc, s, item, err, begin, inFlight>>

(* RangeStart with a slip: main returns when there is no configuration to run *)
RangeStartReturnsOnEmpty ==
    /\ pc = "range"
    /\ IF Len(in.AcoConfigs) > 0
       THEN /\ pc' = "config"
            /\ idx' = 1
       ELSE /\ pc' = "returned"
            /\ idx' = 0
    /\ UNCHANGED <<in, store, conf, tv, res, qc, s, item, err, lastLog, begin,
                   roundSynth, inFlight>>

(* main.go:157: the range loop takes the first configuration, or ends at once
   on an empty list and the outer for comes round again *)
RangeStart ==
    /\ pc = "range"
    /\ IF Len(in.AcoConfigs) > 0
       THEN /\ pc' = "config"
            /\ idx' = 1
       ELSE /\ pc' = "round"
            /\ idx' = 0
    /\ UNCHANGED <<in, store, conf, tv, res, qc, s, item, err, lastLog, begin,
                   roundSynth, inFlight>>

(* main.go:158-177: build the config and the synthesizer, call Synthesise *)
ConfigRun ==
    /\ pc = "config"
    /\ conf' = AcoConfig(in.AcoConfigs[idx])
    /\ tv' = TruthVector(in)
    /\ roundSynth' = Append(roundSynth, idx)
    /\ lastLog' = <<"Running next config">>
    /\ begin' = [in |-> in, store |-> store]
    /\ pc' = "Synthesise"
    /\ inFlight' = inFlight \cup {"Synthesise"}
    /\ UNCHANGED <<in, store, idx, res, qc, s, item, err>>

(* SynthReturn with a slip: a call that takes too long is given up and the
   loop moves on *)
SynthReturnOrTimeout ==
    /\ pc = "Synthesise"
    /\ inFlight' = inFlight \ {"Synthesise"}
    /\ \/ /\ \E r \in Results : res' = r
          /\ pc' = "complexity"
          /\ UNCHANGED <<in, store, idx, conf, tv, qc, s, item, err, lastLog, begin,
                         roundSynth>>
       \/ /\ lastLog' = <<"Synthesise timed out">>
          /\ IF idx < Len(in.AcoConfigs)
             THEN pc' = "config" /\ idx' = idx + 1
             ELSE pc' = "round" /\ idx' = 0
          /\ LocalsReset
          /\ UNCHANGED <<in, store, begin, roundSynth>>

(* main.go:174: Synthesise returns some result *)
SynthReturn ==
    /\ pc = "Synthesise"
    /\ \E r \in Results : res' = r
    /\ pc' = "complexity"
    /\ inFlight' = inFlight \ {"Synthesise"}
    /\ UNCHANGED <<in, store, idx, conf, tv, qc, s, item, err, lastLog, begin, roundSynth>>

(* CheckComplexity with a slip: a non-exact result makes the same configuration
   run again *)
CheckComplexityRetries ==
    /\ pc = "complexity"
    /\ IF SkipComplexity(res)
       THEN /\ lastLog' = <<"Skipping as complexity is", res.Complexity>>
            /\ pc' = "config"
            /\ LocalsReset
            /\ UNCHANGED <<in, store, idx, begin, roundSynth, inFlight>>
       ELSE /\ pc' = "cost"
            /\ UNCHANGED <<in, store, idx, conf, tv, res, qc, s, item, err,
                           lastLog, begin, roundSynth, inFlight>>

(* main.go:179-182 *)
CheckComplexity ==
    /\ pc = "complexity"
    /\ IF SkipComplexity(res)
       THEN Continue(<<"Skipping as complexity is", res.Complexity>>)
       ELSE /\ pc' = "cost"
            /\ UNCHANGED <<in, store, idx, conf, tv, res, qc, s, item, err,
                           lastLog, begin, roundSynth, inFlight>>

(* CalcCost with a slip: an unknown gate type is scored 0 instead of ending the
   process *)
CalcCostDefaultsUnknown ==
    /\ pc = "cost"
    /\ qc' = <<calcQuantumCost(res.Gates).qc>>
    /\ pc' = "filter"
    /\ UNCHANGED <<in, store, idx, conf, tv, res, s, item, err, lastLog, begin, roundSynth, inFlight>>

(* main.go:184 *)
CalcCost ==
    /\ pc = "cost"
    /\ IF calcQuantumCost(res.Gates).fatal
       THEN Fatal(<<"unknown gate type:", calcQuantumCost(res.Gates).typeName>>)
       ELSE /\ qc' = <<calcQuantumCost(res.Gates).qc>>
            /\ pc' = "filter"
            /\ UNCHANGED <<in, store, idx, conf, tv, res, s, item, err,
                           lastLog, begin, roundSynth, inFlight>>

(* CheckCost with a slip: a too expensive result lowers the target cost before
   the skip *)
CheckCostTightens ==
    /\ pc = "filter"
    /\ IF SkipCost(qc[1], in.TargetQuantumCost)
       THEN /\ in' = [in EXCEPT !.TargetQuantumCost = in.TargetQuantumCost - 1]
            /\ lastLog' = <<"Skipping as quantum cost is", qc[1]>>
            /\ IF idx < Len(in.AcoConfigs)
               THEN pc' = "config" /\ idx' = idx + 1
               ELSE pc' = "round" /\ idx' = 0
            /\ LocalsReset
            /\ UNCHANGED <<store, begin, roundSynth, inFlight>>
       ELSE /\ pc' = "save"
            /\ UNCHANGED <<in, store, idx, conf, tv, res, qc, s, item, err,
                           lastLog, begin, roundSynth, inFlight>>

(* main.go:185-188 *)
CheckCost ==
    /\ pc = "filter"
    /\ IF SkipCost(qc[1], in.TargetQuantumCost)
       THEN Continue(<<"Skipping as quantum cost is", qc[1]>>)
       ELSE /\ pc' = "save"
            /\ UNCHANGED <<in, store, idx, conf, tv, res, qc, s, item, err,
                           lastLog, begin, roundSynth, inFlight>>

(* SaveCall with a slip: SaveSolution is started with `go` and the loop body
   ends without waiting for it *)
SaveCallAsync ==
    /\ pc = "save"
    /\ s' = Solution(qc[1], in, res)
    /\ inFlight' = inFlight \cup {"SaveSolution"}
    /\ IF idx < Len(in.AcoConfigs)
       THEN pc' = "config" /\ idx' = idx + 1
       ELSE pc' = "round" /\ idx' = 0
    /\ UNCHANGED <<in, store, conf, tv, res, qc, item, err, lastLog, begin, roundSynth>>

(* main.go:190-194: SaveSolution is called *)
SaveCall ==
    /\ pc = "save"
    /\ s' = Solution(qc[1], in, res)
    /\ pc' = "SaveSolution"
    /\ inFlight' = inFlight \cup {"SaveSolution"}
    /\ UNCHANGED <<in, store, idx, conf, tv, res, qc, item, err, lastLog, begin, roundSynth>>

(* main.go:83-104: PutItem stores the item and SaveSolution returns nil.
   Ids bounds the number of items: with all of them stored the call stays
   unreturned. *)
PutItemOk ==
    /\ pc = "SaveSolution"
    /\ UnusedIds # {}
    /\ item' = PutItemInput(NewString, s)
    /\ store' = PutItem(store, PutItemInput(NewString, s))
    /\ err' = "nil"
    /\ pc' = "err"
    /\ inFlight' = inFlight \ {"SaveSolution"}
    /\ UNCHANGED <<in, idx, conf, tv, res, qc, s, lastLog, begin, roundSynth>>

(* main.go:83-104: PutItem fails and SaveSolution returns its error; a failed
   PutItem is taken to have stored nothing *)
PutItemErr ==
    /\ pc = "SaveSolution"
    /\ UnusedIds # {}
    /\ item' = PutItemInput(NewString, s)
    /\ err' = "error"
    /\ pc' = "err"
    /\ inFlight' = inFlight \ {"SaveSolution"}
    /\ UNCHANGED <<in, store, idx, conf, tv, res, qc, s, lastLog, begin, roundSynth>>

(* CheckErr with a slip: the error of SaveSolution is logged and the loop goes on *)
CheckErrGoesOn ==
    /\ pc = "err"
    /\ Continue(IF err # "nil" THEN <<"Failed to save:", err>> ELSE lastLog)

(* CheckErr with a slip: after a successful save the same result is saved
   again *)
CheckErrSavesAgain ==
    /\ pc = "err"
    /\ IF err # "nil"
       THEN Fatal(<<"Failed to save:", err>>)
       ELSE /\ pc' = "save"
            /\ UNCHANGED <<in, store, idx, conf, tv, res, qc, s, item, err,
                           lastLog, begin, roundSynth, inFlight>>

(* main.go:195-198 *)
CheckErr ==
    /\ pc = "err"
    /\ IF err # "nil"
       THEN Fatal(<<"Failed to save:", err>>)
       ELSE Continue(lastLog)

Next ==
    \/ RoundStart
    \/ RangeStart
    \/ ConfigRun
    \/ SynthReturn
    \/ CheckComplexity
    \/ CalcCost
    \/ CheckCost
    \/ SaveCall
    \/ PutItemOk
    \/ PutItemErr
    \/ CheckErr

Spec == Init /\ [][Next]_vars

(* the program started on an input.json of VectorInputs *)
VectorInit ==
    /\ in \in VectorInputs
    /\ store = {}
    /\ pc = "round"
    /\ idx = 0
    /\ conf = None
    /\ tv = None
    /\ res = None
    /\ qc = None
    /\ s = None
    /\ item = None
    /\ err = None
    /\ lastLog = None
    /\ begin = None
    /\ roundSynth = <<>>
    /\ inFlight = {}

VectorSpec == VectorInit /\ [][Next]_vars

(* The steps main() takes by itself.  A running process keeps executing its
   own statements; when Synthesise or PutItem return is up to the library
   and the service. *)
ControllerStep ==
    \/ RoundStart
    \/ RangeStart
    \/ ConfigRun
    \/ CheckComplexity
    \/ CalcCost
    \/ CheckCost
    \/ SaveCall
    \/ CheckErr

FairSpec == Init /\ [][Next]_vars /\ WF_vars(ControllerStep)


-----------------------------------------------------------------------------
(* What the specification says, written without the program's operators *)

Recognized(gates) ==
    \A i \in 1..Len(gates) : gates[i].TypeName \in {"cnot", "fredkin"}

CountOf(gates, typeName) ==
    Cardinality({ i \in 1..Len(gates) : gates[i].TypeName = typeName })

(* cost = 1 * #controlled-NOT + 5 * #Fredkin *)
SpecCost(gates) == CountOf(gates, "cnot") + 5 * CountOf(gates, "fredkin")

(* acceptance holds iff complexity == 0 AND cost <= targetCost *)
SpecAccepts(r) ==
    r.Complexity = 0 /\ SpecCost(r.Gates) <= in.TargetQuantumCost

(* the recoverable outcomes: nonzero complexity, or exact and too expensive *)
SpecRejects(r) ==
    \/ r.Complexity # 0
    \/ r.Complexity = 0 /\ Recognized(r.Gates) /\ SpecCost(r.Gates) > in.TargetQuantumCost

(* "[" + v0 + ", " + v1 + ... + "]" *)
RECURSIVE SpecVectorBody(_)
SpecVectorBody(v) ==
    IF Len(v) = 0 THEN ""
    ELSE IF Len(v) = 1 THEN ToString(v[1])
    ELSE SpecVectorBody(SubSeq(v, 1, Len(v) - 1)) \o ", " \o ToString(v[Len(v)])

SpecVector(v) == "[" \o SpecVectorBody(v) \o "]"

(* TypeName(targetBitsVector, controlBitsVector) *)
SpecGate(g) ==
    g.TypeName \o "(" \o SpecVector(g.TargetBits) \o ", " \o SpecVector(g.ControlBits) \o ")"

(* the last gate first, the first gate last, joined by ", " *)
RECURSIVE SpecGates(_)
SpecGates(gates) ==
    IF Len(gates) = 0 THEN ""
    ELSE IF Len(gates) = 1 THEN SpecGate(gates[1])
    ELSE SpecGate(gates[Len(gates)]) \o ", " \o SpecGates(SubSeq(gates, 1, Len(gates) - 1))

(* positions of main() between the return of Synthesise and the decision *)
Evaluating == {"complexity", "cost", "filter"}

(* the load order of the first n configurations *)
LoadOrder(n) == [k \in 1..n |-> k]

SkipLines == {"Skipping as complexity is", "Skipping as quantum cost is"}

JustSkipped ==
    /\ pc \in {"config", "round"}
    /\ lastLog # None
    /\ lastLog[1] \in SkipLines

-----------------------------------------------------------------------------
(* C1: for every synthesis result of recognized gates, with any integer
   complexity, the controller goes on to persist it if and only if its
   complexity is 0 and its cost is at most targetCost; every other result
   is skipped.  The program fails this for a negative complexity. *)
C1_PersistsIffExactAndWithinCost ==
    [][ (/\ pc \in Evaluating
         /\ Recognized(res.Gates)
         /\ pc' \notin Evaluating)
            => /\ pc' = "save" <=> SpecAccepts(res)
               /\ pc' # "save" => pc' \in {"config", "round"} /\ store' = store ]_vars

(* C2: for every gate sequence of cnot and fredkin gates, the empty one
   included, calcQuantumCost returns 1 * #cnot + 5 * #fredkin, and so does
   it for every reordering of the sequence. *)
C2_CostIsWeightedCount ==
    qc # None =>
        /\ Recognized(res.Gates)
        /\ qc[1] = SpecCost(res.Gates)
        /\ \A g \in GateSeqs :
             (/\ Len(g) = Len(res.Gates)
              /\ CountOf(g, "cnot") = CountOf(res.Gates, "cnot")
              /\ CountOf(g, "fredkin") = CountOf(res.Gates, "fredkin"))
                => calcQuantumCost(g).qc = qc[1] /\ ~calcQuantumCost(g).fatal

C2_Witness ==
    /\ qc = <<6>>
    /\ Len(res.Gates) = 2
    /\ res.Gates[1].TypeName = "fredkin"
    /\ res.Gates[2].TypeName = "cnot"

(* C3: when calcQuantumCost is given a sequence with a gate that is neither
   cnot nor fredkin the process ends: no cost is produced, nothing is
   handed to SaveSolution or stored, and the ended process takes no
   further step. *)
C3_UnknownGateIsFatal ==
    [][ /\ (pc = "cost" /\ ~Recognized(res.Gates))
            => /\ pc' = "fatal"
               /\ qc' = None
               /\ s' = None
               /\ store' = store
        /\ pc = "fatal" => UNCHANGED vars ]_vars

C3_Witness ==
    /\ pc = "fatal"
    /\ lastLog = <<"unknown gate type:", "toffoli">>
    /\ Len(res.Gates) = 2
    /\ res.Gates[1].TypeName = "cnot"
    /\ qc = None
    /\ idx < Len(in.AcoConfigs)

(* C4: when SaveSolution returns an error the process ends at once: the
   solution is not submitted again, the store is left as it is, and no
   configuration is synthesised afterwards. *)
C4_SaveErrorIsFatal ==
    [][ /\ (pc = "err" /\ err # "nil")
            => /\ pc' = "fatal"
               /\ store' = store
               /\ s' = s
        /\ (pc = "fatal" /\ err # None)
            => /\ pc' \notin {"config", "Synthesise", "save", "SaveSolution"}
               /\ UNCHANGED <<store, roundSynth, idx>> ]_vars

C4_Witness ==
    /\ pc = "fatal"
    /\ err = "error"
    /\ lastLog = <<"Failed to save:", "error">>
    /\ s.Gates # <<>>
    /\ idx < Len(in.AcoConfigs)

(* C5: within a round the configurations are synthesised in load order,
   each with its own configuration, and Synthesise is called only when
   nothing of the preceding configuration's evaluation or save is left. *)
C5_LoadOrder ==
    /\ roundSynth = LoadOrder(Len(roundSynth))
    /\ Len(roundSynth) <= Len(in.AcoConfigs)
    /\ pc = "config" => idx = Len(roundSynth) + 1
    /\ pc \in {"Synthesise", "complexity", "cost", "filter", "save", "SaveSolution", "err"}
        => idx = Len(roundSynth) /\ conf = AcoConfig(in.AcoConfigs[idx])
    /\ pc \in {"config", "Synthesise"}
        => res = None /\ qc = None /\ s = None /\ item = None /\ err = None

C5_Witness ==
    /\ pc = "Synthesise"
    /\ roundSynth = <<1, 2>>
    /\ Cardinality(store) = 1
    /\ conf = AcoConfig(ConfigB)

(* C6: the controller has no terminal state of its own.  Provided no
   Synthesise and no SaveSolution call stays unreturned for ever and the
   process never ends on a fatal condition, the controller again and again
   ends a round in which it has synthesised every loaded configuration in
   load order, and every loaded configuration is synthesised again and
   again. *)
C6_RoundsForever ==
    ([]<>(pc # "Synthesise") /\ []<>(pc # "SaveSolution") /\ [](pc # "fatal"))
        => /\ []<>(/\ pc = "round"
                   /\ lastLog # None
                   /\ roundSynth = LoadOrder(Len(in.AcoConfigs)))
           /\ \A i \in 1..MaxConfigs :
                []<>(i <= Len(in.AcoConfigs) => pc = "Synthesise" /\ idx = i)

C6_Witness ==
    /\ Len(in.AcoConfigs) = 1
    /\ Cardinality(store) = 2
    /\ pc = "Synthesise"
    /\ roundSynth = <<1>>

(* C7: a result with nonzero complexity, or an exact one costing more than
   targetCost, never stops the campaign: once the controller has such a
   result it does not end the process and does not call SaveSolution, and
   when it leaves the evaluation it is at the next configuration in load
   order, or at the start of the next round after the last one.  The
   program fails this for a negative complexity. *)
C7_RejectionNeverStops ==
    [][ (res # None /\ SpecRejects(res))
            => /\ pc' \notin {"fatal", "save", "SaveSolution"}
               /\ store' = store
               /\ pc' \notin Evaluating
                    => IF idx < Len(in.AcoConfigs)
                       THEN pc' = "config" /\ idx' = idx + 1
                       ELSE pc' = "round" ]_vars

(* the part of C7 the program keeps: each of its two skips moves on to the
   next configuration, or to the next round after the last one *)
SkipsOfTheProgramMoveOn ==
    [][ (\/ pc = "complexity" /\ res.Complexity > 0
         \/ pc = "filter" /\ qc[1] > in.TargetQuantumCost)
            => /\ store' = store
               /\ s' = None
               /\ IF idx < Len(in.AcoConfigs)
                  THEN pc' = "config" /\ idx' = idx + 1
                  ELSE pc' = "round" ]_vars

(* C8: a configuration step that ended in a skip has left the input (truth
   table, target vector, target cost, the configuration list and its
   order) and the stored solutions as they were when the step began. *)
C8_SkipLeavesSharedState ==
    JustSkipped => begin.in = in /\ begin.store = store

C8_Witness ==
    /\ pc = "config"
    /\ lastLog = <<"Skipping as quantum cost is", 10>>
    /\ store # {}
    /\ idx = 2

(* C9: every stored solution came from a result of complexity 0, its stored
   cost is the cost of its own gate sequence and at most targetCost, and
   its stored target vector is the input's.  The program fails the first
   part for a negative complexity. *)
C9_StoredSolutionsAreExact ==
    /\ \A i \in store :
         /\ i.truthVector = SpecVector(in.TargetVector)
         /\ \E g \in GateSeqs :
              /\ Recognized(g)
              /\ i.gates = SpecGates(g)
              /\ i.quantumCost = ToString(SpecCost(g))
              /\ SpecCost(g) <= in.TargetQuantumCost
    /\ (pc = "err" /\ err = "nil")
         => /\ item \in store
            /\ item.gates = SpecGates(res.Gates)
            /\ res.Complexity = 0

(* the part of C9 the program keeps: everything about the stored solutions
   but the complexity of the result they came from *)
StoredSolutionsAreWithinCost ==
    /\ \A i \in store :
         /\ i.truthVector = SpecVector(in.TargetVector)
         /\ \E g \in GateSeqs :
              /\ Recognized(g)
              /\ i.gates = SpecGates(g)
              /\ i.quantumCost = ToString(SpecCost(g))
              /\ SpecCost(g) <= in.TargetQuantumCost
    /\ (pc = "err" /\ err = "nil")
         => /\ item \in store
            /\ item.gates = SpecGates(res.Gates)
            /\ res.Complexity <= 0

(* C10: gatesToStr renders the gates of a result in reverse order, the last
   gate first, each as TypeName(targetBits, controlBits), joined by ", ",
   with one entry per gate; the empty sequence renders as "". *)
C10_GatesRenderedInReverse ==
    /\ res # None =>
        /\ gatesToStr(res.Gates) = SpecGates(res.Gates)
        /\ Len(gatesSSOf(res.Gates)) = Len(res.Gates)
        /\ \A k \in 1..Len(res.Gates) :
             gatesSSOf(res.Gates)[k] = SpecGate(res.Gates[Len(res.Gates) + 1 - k])
    /\ item # None =>
        /\ s.Gates = res.Gates
        /\ item.gates = SpecGates(res.Gates)
        /\ res.Gates = <<>> => item.gates = ""

C10_Witness ==
    /\ item # None
    /\ item \in store
    /\ Len(res.Gates) = 2
    /\ res.Gates[1].TypeName = "cnot"
    /\ res.Gates[2].TypeName = "fredkin"
    /\ item.gates = "fredkin([0, 1], [2]), cnot([0], [1])"

(* C11: vectorToStr renders "[", the decimal elements in their original
   order separated by ", ", and "]": [1, 0, 1] gives "[1, 0, 1]" and the
   empty vector gives "[]".  Checked on the target vector of the input,
   which SaveSolution renders into the item. *)
C11_VectorRendering ==
    /\ vectorToStr(in.TargetVector) = SpecVector(in.TargetVector)
    /\ item # None =>
        /\ item.truthVector = SpecVector(in.TargetVector)
        /\ in.TargetVector = <<1, 0, 1>> => item.truthVector = "[1, 0, 1]"
        /\ in.TargetVector = <<>> => item.truthVector = "[]"
        /\ in.TargetVector = <<-1, 1>> => item.truthVector = "[-1, 1]"

C11_Witness ==
    /\ item \in store
    /\ in.TargetVector = <<1, 0, 1>>
    /\ item.truthVector = "[1, 0, 1]"

(* C12: the filter short-circuits: for a result of nonzero complexity
   calcQuantumCost is never called, whatever its gates, an unknown gate
   type included, so main() holds such a result only at the complexity
   test and the process does not end on it.  The program fails this for a
   negative complexity. *)
C12_NonExactIsNeverScored ==
    (res # None /\ res.Complexity # 0) => pc = "complexity" /\ qc = None

(* the part of C12 the program keeps: a result of positive complexity is
   never scored, whatever its gates *)
PositiveComplexityIsNeverScored ==
    (res # None /\ res.Complexity > 0) => pc = "complexity" /\ qc = None

(* C13: in a round each loaded configuration is synthesised at most once,
   and a round that has ended has synthesised every loaded configuration
   exactly once, whatever was skipped or saved in this or an earlier
   round. *)
C13_OncePerRound ==
    /\ \A i, j \in 1..Len(roundSynth) : roundSynth[i] = roundSynth[j] => i = j
    /\ \A k \in 1..Len(roundSynth) : roundSynth[k] \in 1..Len(in.AcoConfigs)
    /\ (pc = "round" /\ lastLog # None)
         => \A c \in 1..Len(in.AcoConfigs) :
              Cardinality({ k \in 1..Len(roundSynth) : roundSynth[k] = c }) = 1

C13_Witness ==
    /\ pc = "round"
    /\ Len(in.AcoConfigs) = 1
    /\ Cardinality(store) = 2
    /\ lastLog = <<"Skipping as complexity is", 1>>
    /\ roundSynth = <<1>>

(* C14: the store is append-only with unique identifiers: a successful
   SaveSolution adds exactly one item, the one it built, under an
   identifier no stored item has; no other step changes the store, and
   no stored item is ever changed or removed, also when a later solution
   has the same target vector, cost and gates. *)
C14_StoreIsAppendOnly ==
    [][ /\ store \subseteq store'
        /\ \A i, j \in store' : i.id = j.id => i = j
        /\ (pc = "SaveSolution" /\ err' = "nil")
             => /\ item' \notin store
                /\ \A j \in store : j.id # item'.id
                /\ store' = store \cup {item'}
        /\ store' # store => pc = "SaveSolution" /\ err' = "nil" ]_vars

C14_Witness ==
    \E i, j \in store :
        /\ i.id # j.id
        /\ i.truthVector = j.truthVector
        /\ i.quantumCost = j.quantumCost
        /\ i.gates = j.gates

(* C15: execution is strictly sequential.  At most one external call
   (Synthesise or SaveSolution) is in progress at any time; SaveSolution
   is started only with no call in progress, on the result the returned
   Synthesise call left; Synthesise is started only with no call in
   progress and no save error pending, and once SaveSolution has returned
   an error no call is ever started again. *)
C15_StrictlySequential ==
    [][ /\ Cardinality(inFlight') <= 1
        /\ ("SaveSolution" \in inFlight' /\ "SaveSolution" \notin inFlight)
             => /\ inFlight = {}
                /\ pc = "save"
                /\ res # None
                /\ s'.Gates = res.Gates
        /\ ("Synthesise" \in inFlight' /\ "Synthesise" \notin inFlight)
             => /\ inFlight = {}
                /\ pc = "config"
                /\ err = None
        /\ (pc \in {"err", "fatal"} /\ err = "error")
             => /\ err' = "error"
                /\ pc' = "fatal"
                /\ inFlight' = {} ]_vars

C15_Witness ==
    /\ pc = "Synthesise"
    /\ inFlight = {"Synthesise"}
    /\ roundSynth = <<1, 2>>
    /\ Cardinality(store) = 1
    /\ begin.store = store

(* C16: while a Synthesise call is in progress the only step of the
   program is the return of that call: without it the campaign stays at
   that configuration, no later configuration is synthesised, SaveSolution
   is not called, and the call is neither given up nor made again. *)
C16_UnreturnedSynthesiseStalls ==
    [][ pc = "Synthesise"
            => /\ pc' = "complexity"
               /\ res' \in Results
               /\ inFlight = {"Synthesise"}
               /\ inFlight' = {}
               /\ UNCHANGED <<in, store, idx, conf, tv, s, item, err, roundSynth>> ]_vars

C16_Witness ==
    /\ pc = "Synthesise"
    /\ inFlight = {"Synthesise"}
    /\ idx = 1
    /\ Len(in.AcoConfigs) = 2
    /\ store # {}

(* the arguments Synthesise has been called with are those C17 names *)
HandedToSynthesise ==
    /\ DOMAIN conf = {"NumOfAnts", "NumOfIterations", "Alpha", "Beta", "EvaporationRate",
                      "DepositStrength", "LocalLoops", "SearchDepth"}
    /\ conf.NumOfAnts = in.AcoConfigs[idx].NumOfAnts
    /\ conf.NumOfIterations = in.AcoConfigs[idx].NumOfIterations
    /\ conf.Alpha = in.AcoConfigs[idx].Alpha
    /\ conf.Beta = in.AcoConfigs[idx].Beta
    /\ conf.EvaporationRate = in.AcoConfigs[idx].EvaporationRate
    /\ conf.LocalLoops = in.AcoConfigs[idx].LocalLoops
    /\ conf.SearchDepth = in.AcoConfigs[idx].SearchDepth
    /\ conf.DepositStrength = 100
    /\ tv.Inputs = in.InputTT
    /\ tv.Vector = in.TargetVector

(* C17: for every configuration in every round the parameterization handed
   to the synthesizer has the loaded configuration's ant count, iteration
   cap, alpha, beta, evaporation rate, local-loop count and search depth and
   the deposit strength 100; the truth table and the target vector are
   those of the input, which no step changes. *)
C17_Parameterization ==
    [][ /\ in' = in
        /\ pc' = "Synthesise" => HandedToSynthesise' ]_vars

C17_Witness ==
    /\ pc = "Synthesise"
    /\ idx = 2
    /\ store # {}
    /\ conf.NumOfAnts = 25
    /\ conf.DepositStrength = 100
    /\ tv.Vector = <<0, 3, 2, 1>>

(* C18: each returned Synthesise call leads to at most one SaveSolution
   call, made on the gate sequence of that result in the synthesizer's
   order.  SaveSolution is called only on a result no Solution has been
   built for yet, the result in hand is the one the last returned
   Synthesise call left and is dropped when the loop moves on, and after
   SaveSolution has returned the program ends or goes to the next
   configuration with no result in hand; so no result is saved twice and
   no earlier result is saved in place of a later one. *)
C18_AtMostOneSavePerResult ==
    [][ /\ (pc' = "SaveSolution" /\ pc # "SaveSolution")
             => /\ pc = "save"
                /\ "Synthesise" \notin inFlight
                /\ res # None
                /\ res' = res
                /\ s = None
                /\ s'.Gates = res.Gates
        /\ (pc = "SaveSolution" /\ pc' # "SaveSolution")
             => /\ pc' = "err"
                /\ s' = s
                /\ s.Gates = res.Gates
                /\ item'.gates = gatesToStr(res.Gates)
        /\ pc = "err"
             => /\ pc' \in {"fatal", "config", "round"}
                /\ pc' # "fatal" => res' = None /\ s' = None
        /\ res' # res
             => \/ pc = "Synthesise" /\ res = None /\ res' \in Results
                \/ res' = None /\ pc' \in {"config", "round"} ]_vars

C18_Witness ==
    /\ pc = "err"
    /\ err = "nil"
    /\ res.Gates = s.Gates
    /\ Len(s.Gates) = 2
    /\ s.Gates[1] # s.Gates[2]
    /\ item \in store
    /\ Cardinality(store) = 2

(* C19: with an empty configuration list the controller never halts: it
   starts round after round for ever, and no Synthesise and no
   SaveSolution call is ever made. *)
C19_EmptyListRoundsForever ==
    (Len(in.AcoConfigs) = 0)
        => /\ []<>(pc = "round")
           /\ []<>(pc = "range" /\ lastLog = <<"Running next iteration">>)
           /\ [](/\ pc \in {"round", "range"}
                 /\ inFlight = {}
                 /\ roundSynth = <<>>
                 /\ res = None
                 /\ s = None
                 /\ store = {})

C19_Witness ==
    /\ Len(in.AcoConfigs) = 0
    /\ pc = "round"
    /\ lastLog = <<"Running next iteration">>
    /\ inFlight = {}
    /\ store = {}

(* C20: an exact result (complexity 0) with an empty gate sequence has
   cost 0, and with targetCost >= 0 it is not skipped: it leaves the
   evaluation only into the save, and a successful SaveSolution stores it
   with cost "0" and no gates.  With a negative targetCost SaveSolution is
   never called and nothing is stored, the cost computed for a gate
   sequence being at least 0. *)
C20_EmptyExactResult ==
    [][ /\ qc' # None => qc'[1] >= 0
        /\ in.TargetQuantumCost < 0
             => store' = {} /\ pc' \notin {"save", "SaveSolution", "err"}
        /\ (/\ res # None
            /\ res.Complexity = 0
            /\ res.Gates = <<>>
            /\ in.TargetQuantumCost >= 0)
             => /\ qc' # None => qc' = <<0>>
                /\ (pc \in Evaluating /\ pc' \notin Evaluating) => pc' = "save"
                /\ (pc = "SaveSolution" /\ err' = "nil")
                     => /\ item' \in store'
                        /\ item'.quantumCost = "0"
                        /\ item'.gates = "" ]_vars

C20_Witness ==
    /\ in.TargetQuantumCost = 0
    /\ res # None
    /\ res.Complexity = 0
    /\ res.Gates = <<>>
    /\ qc = <<0>>
    /\ item \in store
    /\ item.quantumCost = "0"
    /\ item.gates = ""

====
